---- MODULE Spec2Model ----
(***************************************************************************)
(* Model of src/bin/mksample.rs: build_line, build_sample and the          *)
(* SampleBuilder that runs build_sample in threads and joins them on drop. *)
(*                                                                         *)
(* A line's string is a sequence of chars (code points); as_bytes() is the *)
(* UTF-8 encoding of that sequence.  Line.length counts chars.             *)
(*                                                                         *)
(* The sink handed to build_sample is seen through the operations the      *)
(* BufWriter performs on it: every write or flush is appended to `sink`    *)
(* with its outcome.  A write is accepted whole or rejected whole.         *)
(*                                                                         *)
(* usize arithmetic is unbounded here: wrapping would need a line or an    *)
(* output of at least half the address space.                              *)
(***************************************************************************)
EXTENDS Integers, Sequences, FiniteSets, TLC

VARIABLES
    line_length,          \* [Jobs -> policy]   build_sample's line_length argument
    sample_length,        \* [Jobs -> policy]   build_sample's sample_length argument
    character_generator,  \* [Jobs -> Seq(char)] the stream the source yields, cycled
    sink_faults,          \* [Jobs -> SUBSET Nat] which operations the sink rejects
    pc,                   \* [Jobs -> control point of the thread]
    i,                    \* [Jobs -> Nat]  the Lines loop's counter
    chars_written,        \* [Jobs -> Nat]
    file,                 \* [Jobs -> Seq(byte)] bytes held by the BufWriter
    sink,                 \* [Jobs -> Seq(op)]  operations performed on the sink
    calls,                \* [Jobs -> Nat]  invocations of character_generator
    line,                 \* [Jobs -> the latest build_line call and its result]
    written,              \* [Jobs -> Seq(line)] lines write_all accepted
    panic,                \* [Jobs -> reason the thread panicked, or "none"]
    finished,             \* job ids in the order their threads ended
    samples,              \* SampleBuilder.samples: queue of job ids
    reports,              \* what drop printed, in order
    mainpc                \* control point of main

vars == <<line_length, sample_length, character_generator, sink_faults, pc, i,
          chars_written, file, sink, calls, line, written, panic, finished,
          samples, reports, mainpc>>

mainvars == <<samples, reports, mainpc>>

-----------------------------------------------------------------------------
(* Bounds *)

\* largest Fixed(n) and largest Range bound
MaxLen == 3
\* largest Lines(n)
MaxLines == 3
\* largest Characters(limit)
MaxLimit == 9
\* longest period of a character stream
MaxPeriod == 2
\* sink operations 1..MaxFault may be rejected
MaxFault == 2
\* capacity of the BufWriter (std's default of 8 KiB, scaled down)
BufCap == 4
\* jobs main may submit
NJobs == 2

Jobs == 1..NJobs

\* 'c' (one byte in UTF-8) and U+00E9 (two bytes)
Chars == {99, 233}

NL == 10

-----------------------------------------------------------------------------
(* Data types *)

Fixed(n) == [tag |-> "Fixed", n |-> n]

Range(start, end) == [tag |-> "Range", start |-> start, end |-> end]

Lines(n) == [tag |-> "Lines", n |-> n]

Characters(limit) == [tag |-> "Characters", n |-> limit]

LineLengths == {Fixed(n) : n \in 0..MaxLen}
                 \cup {Range(s, e) : s \in 0..MaxLen, e \in 0..MaxLen}

SampleLengths == {Lines(n) : n \in 0..MaxLines}
                   \cup {Characters(l) : l \in 0..MaxLimit}

Sources == UNION {[1..p -> Chars] : p \in 1..MaxPeriod}

FaultSets == SUBSET (1..MaxFault)

\* A Range policy build_line accepts.
ValidPolicy(p) == p.tag = "Fixed" \/ p.start < p.end

-----------------------------------------------------------------------------
(* Strings *)

RECURSIVE Utf8(_)
\* String::as_bytes: the UTF-8 encoding of a sequence of chars.
Utf8(s) ==
    IF s = <<>> THEN <<>>
    ELSE LET c == Head(s)
             e == IF c < 128 THEN <<c>>
                  ELSE IF c < 2048 THEN <<192 + (c \div 64), 128 + (c % 64)>>
                  ELSE IF c < 65536
                       THEN <<224 + (c \div 4096), 128 + ((c \div 64) % 64),
                              128 + (c % 64)>>
                  ELSE <<240 + (c \div 262144), 128 + ((c \div 4096) % 64),
                         128 + ((c \div 64) % 64), 128 + (c % 64)>>
         IN e \o Utf8(Tail(s))

\* The char the source yields on its (k+1)-th invocation.
CharAt(src, k) == src[(k % Len(src)) + 1]

\* n successive invocations of the source, the first being invocation c+1.
Take(src, c, n) == [k \in 1..n |-> CharAt(src, c + k - 1)]

-----------------------------------------------------------------------------
(* build_line *)

AssertNe(a, b) == a # b

\* Mutant: the range taken as start..=end.
FastrandUsizeInclusive(start, end) == IF start >= end THEN {} ELSE start..end

\* Mutant: an empty range clamped to its start instead of panicking.
FastrandUsizeClamped(start, end) ==
    IF start >= end THEN {start} ELSE start..(end - 1)

\* fastrand::usize(start..end): the values it may return; none: it panics.
FastrandUsize(start, end) == IF start >= end THEN {} ELSE start..(end - 1)

\* Mutant: the terminator left out of the length.
FixedLengthNoTerminator(n) == n

FixedLength(n) == n + 1

\* The random draws a call may see; {} when the call panics before building.
Draws(policy) ==
    IF policy.tag = "Fixed" THEN {0}
    ELSE IF ~AssertNe(policy.start, policy.end) THEN {}
    ELSE FastrandUsize(policy.start, policy.end)

BuildLinePanic(policy) ==
    IF ~AssertNe(policy.start, policy.end) THEN "assert_ne" ELSE "empty range"

\* build_line with the source at invocation count c and random draw d.
BuildLine(policy, src, c, d) ==
    IF policy.tag = "Fixed"
    THEN [string |-> Take(src, c, policy.n) \o <<NL>>,
          length |-> FixedLength(policy.n),
          calls  |-> c + policy.n]
    ELSE LET length == d + 1
         IN [string |-> Take(src, c, length - 1) \o <<NL>>,
             length |-> length,
             calls  |-> c + (length - 1)]

\* The record of a build_line call: n-th call of the job, its argument, the
\* source's invocation count before it, and the result when it returned.
Call(n, policy, before, ok, string, length) ==
    [n |-> n, policy |-> policy, before |-> before, ok |-> ok,
     string |-> string, length |-> length]

NoCall == Call(0, Fixed(0), 0, FALSE, <<>>, 0)

-----------------------------------------------------------------------------
(* BufWriter over the sink.  w = [buf, log]; the result adds ok. *)

SinkOp(log, f, op, bytes) ==
    Append(log, [op |-> op, bytes |-> bytes, ok |-> (Len(log) + 1) \notin f])

\* BufWriter::flush_buf
FlushBuf(buf, log, f) ==
    IF buf = <<>> THEN [buf |-> buf, log |-> log, ok |-> TRUE]
    ELSE LET l2 == SinkOp(log, f, "write", buf)
         IN IF l2[Len(l2)].ok
            THEN [buf |-> <<>>, log |-> l2, ok |-> TRUE]
            ELSE [buf |-> buf, log |-> l2, ok |-> FALSE]

\* BufWriter::write_all
WriteAll(buf, log, f, bytes) ==
    LET a == IF Len(bytes) > BufCap - Len(buf)
             THEN FlushBuf(buf, log, f)
             ELSE [buf |-> buf, log |-> log, ok |-> TRUE]
    IN IF ~a.ok THEN a
       ELSE IF Len(bytes) >= BufCap
            THEN LET l2 == SinkOp(a.log, f, "write", bytes)
                 IN [buf |-> a.buf, log |-> l2, ok |-> l2[Len(l2)].ok]
            ELSE [buf |-> a.buf \o bytes, log |-> a.log, ok |-> TRUE]

\* BufWriter::flush
FlushWriter(buf, log, f) ==
    LET a == FlushBuf(buf, log, f)
    IN IF ~a.ok THEN a
       ELSE LET l2 == SinkOp(a.log, f, "flush", <<>>)
            IN [buf |-> a.buf, log |-> l2, ok |-> l2[Len(l2)].ok]

\* BufWriter's Drop: flush_buf, its result ignored.
DropWriter(buf, log, f) == FlushBuf(buf, log, f)

RECURSIVE SinkBytes(_)
\* The bytes the sink holds: the accepted writes, in order.
SinkBytes(log) ==
    IF log = <<>> THEN <<>>
    ELSE (IF log[1].op = "write" /\ log[1].ok THEN log[1].bytes ELSE <<>>)
            \o SinkBytes(Tail(log))

-----------------------------------------------------------------------------
(* build_sample *)

\* Mutant: the bound on the payload, not on the line.
MaxLineLengthPayload(policy) ==
    IF policy.tag = "Fixed" THEN policy.n ELSE policy.end - 1

MaxLineLength(policy) ==
    IF policy.tag = "Fixed" THEN policy.n + 1 ELSE policy.end

\* Mutant: for _ in 0..=n.
LinesGuardInclusive(k, n) == k <= n

LinesGuard(k, n) == k < n

\* Mutant: <= in place of <.
LoopGuardInclusive(cw, max, limit) == cw + max <= limit

\* Mutant: the loop runs until the limit is reached.
LoopGuardNoMax(cw, max, limit) == cw < limit

LoopGuard(cw, max, limit) == cw + max < limit

\* Mutant: the terminator not taken off the final payload.
LastLinePolicyNoTerminator(limit, cw) == Fixed(limit - cw)

LastLinePolicy(limit, cw) == Fixed(limit - cw - 1)

\* Mutant: the error is dropped and the thread goes on.
UnwindSwallowed(j, cause, buf, log) ==
    /\ UNCHANGED <<pc, panic, finished>>
    /\ file' = [file EXCEPT ![j] = buf]
    /\ sink' = [sink EXCEPT ![j] = log]

\* An unwrap() on Err, or a panic in build_line: the thread unwinds, which
\* drops the BufWriter.
Unwind(j, cause, buf, log) ==
    LET d == DropWriter(buf, log, sink_faults[j])
    IN /\ pc' = [pc EXCEPT ![j] = "panicked"]
       /\ panic' = [panic EXCEPT ![j] = cause]
       /\ finished' = Append(finished, j)
       /\ file' = [file EXCEPT ![j] = d.buf]
       /\ sink' = [sink EXCEPT ![j] = d.log]

\* let line = build_line(policy, ..); [chars_written += line.length;]
\* file.write_all(line.string.as_bytes()).unwrap();
Body(j, policy, count, final, next) ==
    LET n == line[j].n + 1
    IN IF Draws(policy) = {}
       THEN /\ line' = [line EXCEPT ![j] =
                           Call(n, policy, calls[j], FALSE, <<>>, 0)]
            /\ Unwind(j, BuildLinePanic(policy), file[j], sink[j])
            /\ UNCHANGED <<calls, chars_written, written>>
       ELSE \E d \in Draws(policy) :
              LET l == BuildLine(policy, character_generator[j], calls[j], d)
                  w == WriteAll(file[j], sink[j], sink_faults[j], Utf8(l.string))
              IN /\ line' = [line EXCEPT ![j] =
                                Call(n, policy, calls[j], TRUE, l.string, l.length)]
                 /\ calls' = [calls EXCEPT ![j] = l.calls]
                 /\ chars_written' =
                       [chars_written EXCEPT ![j] = IF count THEN @ + l.length ELSE @]
                 /\ IF w.ok
                    THEN /\ written' = [written EXCEPT ![j] =
                                Append(@, [string |-> l.string, length |-> l.length,
                                           policy |-> policy, final |-> final])]
                         /\ file' = [file EXCEPT ![j] = w.buf]
                         /\ sink' = [sink EXCEPT ![j] = w.log]
                         /\ pc' = [pc EXCEPT ![j] = next]
                         /\ UNCHANGED <<panic, finished>>
                    ELSE /\ Unwind(j, "write", w.buf, w.log)
                         /\ UNCHANGED written

\* File::create(filename).unwrap() at the head of the spawned closure.
Create(j) ==
    /\ pc[j] = "spawned"
    /\ \E ok \in BOOLEAN :
         IF ok THEN /\ pc' = [pc EXCEPT ![j] = "start"]
                    /\ UNCHANGED <<panic, finished>>
         ELSE /\ pc' = [pc EXCEPT ![j] = "panicked"]
              /\ panic' = [panic EXCEPT ![j] = "create"]
              /\ finished' = Append(finished, j)
    /\ UNCHANGED <<line_length, sample_length, character_generator, sink_faults,
                   i, chars_written, file, sink, calls, line, written>>
    /\ UNCHANGED mainvars

\* BufWriter::new(file); match sample_length
Begin(j) ==
    /\ pc[j] = "start"
    /\ pc' = [pc EXCEPT ![j] =
                 IF sample_length[j].tag = "Lines" THEN "lines" ELSE "chars"]
    /\ i' = [i EXCEPT ![j] = 0]
    /\ chars_written' = [chars_written EXCEPT ![j] = 0]
    /\ file' = [file EXCEPT ![j] = <<>>]
    /\ UNCHANGED <<line_length, sample_length, character_generator, sink_faults,
                   sink, calls, line, written, panic, finished>>
    /\ UNCHANGED mainvars

\* One iteration of for _ in 0..n.
LinesIter(j) ==
    /\ pc[j] = "lines"
    /\ LinesGuard(i[j], sample_length[j].n)
    /\ i' = [i EXCEPT ![j] = @ + 1]
    /\ Body(j, line_length[j], FALSE, FALSE, "lines")
    /\ UNCHANGED <<line_length, sample_length, character_generator, sink_faults>>
    /\ UNCHANGED mainvars

LinesExit(j) ==
    /\ pc[j] = "lines"
    /\ ~LinesGuard(i[j], sample_length[j].n)
    /\ pc' = [pc EXCEPT ![j] = "flush"]
    /\ UNCHANGED <<line_length, sample_length, character_generator, sink_faults,
                   i, chars_written, file, sink, calls, line, written, panic,
                   finished>>
    /\ UNCHANGED mainvars

\* One iteration of while chars_written + max_line_length < limit.
CharsIter(j) ==
    /\ pc[j] = "chars"
    /\ LoopGuard(chars_written[j], MaxLineLength(line_length[j]), sample_length[j].n)
    /\ Body(j, line_length[j], TRUE, FALSE, "chars")
    /\ UNCHANGED <<line_length, sample_length, character_generator, sink_faults, i>>
    /\ UNCHANGED mainvars

CharsExit(j) ==
    /\ pc[j] = "chars"
    /\ ~LoopGuard(chars_written[j], MaxLineLength(line_length[j]), sample_length[j].n)
    /\ pc' = [pc EXCEPT ![j] = "last"]
    /\ UNCHANGED <<line_length, sample_length, character_generator, sink_faults,
                   i, chars_written, file, sink, calls, line, written, panic,
                   finished>>
    /\ UNCHANGED mainvars

\* if chars_written < limit { write the last line }
LastLine(j) ==
    /\ pc[j] = "last"
    /\ IF chars_written[j] < sample_length[j].n
       THEN Body(j, LastLinePolicy(sample_length[j].n, chars_written[j]),
                 FALSE, TRUE, "flush")
       ELSE /\ pc' = [pc EXCEPT ![j] = "flush"]
            /\ UNCHANGED <<chars_written, file, sink, calls, line, written, panic,
                           finished>>
    /\ UNCHANGED <<line_length, sample_length, character_generator, sink_faults, i>>
    /\ UNCHANGED mainvars

\* file.flush().unwrap(); then the BufWriter is dropped with nothing buffered.
Flush(j) ==
    /\ pc[j] = "flush"
    /\ LET w == FlushWriter(file[j], sink[j], sink_faults[j])
       IN IF w.ok
          THEN LET d == DropWriter(w.buf, w.log, sink_faults[j])
               IN /\ file' = [file EXCEPT ![j] = d.buf]
                  /\ sink' = [sink EXCEPT ![j] = d.log]
                  /\ pc' = [pc EXCEPT ![j] = "done"]
                  /\ finished' = Append(finished, j)
                  /\ UNCHANGED panic
          ELSE Unwind(j, "flush", w.buf, w.log)
    /\ UNCHANGED <<line_length, sample_length, character_generator, sink_faults,
                   i, chars_written, calls, line, written>>
    /\ UNCHANGED mainvars

-----------------------------------------------------------------------------
(* Specifications *)

Idle == [j \in Jobs |-> "idle"]

\* build_sample called directly, as the unit tests do, in job 1.
Init ==
    /\ \E ll \in LineLengths :
         line_length = [j \in Jobs |-> IF j = 1 THEN ll ELSE Fixed(0)]
    /\ \E sl \in SampleLengths :
         sample_length = [j \in Jobs |-> IF j = 1 THEN sl ELSE Lines(0)]
    /\ \E src \in Sources :
         character_generator = [j \in Jobs |-> IF j = 1 THEN src ELSE <<99>>]
    /\ \E f \in FaultSets :
         sink_faults = [j \in Jobs |-> IF j = 1 THEN f ELSE {}]
    /\ pc = [Idle EXCEPT ![1] = "start"]
    /\ i = [j \in Jobs |-> 0]
    /\ chars_written = [j \in Jobs |-> 0]
    /\ file = [j \in Jobs |-> <<>>]
    /\ sink = [j \in Jobs |-> <<>>]
    /\ calls = [j \in Jobs |-> 0]
    /\ line = [j \in Jobs |-> NoCall]
    /\ written = [j \in Jobs |-> <<>>]
    /\ panic = [j \in Jobs |-> "none"]
    /\ finished = <<>>
    /\ samples = <<>>
    /\ reports = <<>>
    /\ mainpc = "test"

Next ==
    \E j \in Jobs :
        \/ Begin(j)
        \/ LinesIter(j)
        \/ LinesExit(j)
        \/ CharsIter(j)
        \/ CharsExit(j)
        \/ LastLine(j)
        \/ Flush(j)

Spec == Init /\ [][Next]_vars

-----------------------------------------------------------------------------
(* SampleBuilder *)

\* Mutant: pop_back.
PopIndexBack(q) == Len(q)

\* VecDeque::pop_front: the position drop takes the next sample from.
PopIndex(q) == 1

\* SampleBuilder::sample: spawn the thread and push its handle.
Sample(j, ll, sl, src, f) ==
    /\ mainpc = "main"
    /\ pc[j] = "idle"
    /\ j = Len(samples) + 1
    /\ line_length' = [line_length EXCEPT ![j] = ll]
    /\ sample_length' = [sample_length EXCEPT ![j] = sl]
    /\ character_generator' = [character_generator EXCEPT ![j] = src]
    /\ sink_faults' = [sink_faults EXCEPT ![j] = f]
    /\ pc' = [pc EXCEPT ![j] = "spawned"]
    /\ samples' = Append(samples, j)
    /\ UNCHANGED <<i, chars_written, file, sink, calls, line, written, panic,
                   finished, reports, mainpc>>

\* main returns: the builder goes out of scope and drop starts.
EndMain ==
    /\ mainpc = "main"
    /\ mainpc' = "drop"
    /\ UNCHANGED <<line_length, sample_length, character_generator, sink_faults,
                   pc, i, chars_written, file, sink, calls, line, written, panic,
                   finished, samples, reports>>

\* One iteration of drop's loop: pop a sample, join its thread, print.
Join ==
    /\ mainpc = "drop"
    /\ samples # <<>>
    /\ LET k == PopIndex(samples)
           j == samples[k]
       IN /\ pc[j] \in {"done", "panicked"}
          /\ samples' = SubSeq(samples, 1, k - 1) \o SubSeq(samples, k + 1, Len(samples))
          /\ reports' = Append(reports, [job |-> j, ok |-> pc[j] = "done"])
    /\ UNCHANGED <<line_length, sample_length, character_generator, sink_faults,
                   pc, i, chars_written, file, sink, calls, line, written, panic,
                   finished, mainpc>>

\* pop_front returns None: drop is over.
DropEnd ==
    /\ mainpc = "drop"
    /\ samples = <<>>
    /\ mainpc' = "exit"
    /\ UNCHANGED <<line_length, sample_length, character_generator, sink_faults,
                   pc, i, chars_written, file, sink, calls, line, written, panic,
                   finished, samples, reports>>

-----------------------------------------------------------------------------
(* Two direct calls on the same Fixed policy and the same source, one by   *)
(* line count and one by the character count of the same shape.            *)

InitPair ==
    /\ \E n \in 0..MaxLen, k \in 0..MaxLines, src \in Sources :
         /\ line_length = [j \in Jobs |-> Fixed(n)]
         /\ character_generator = [j \in Jobs |-> src]
         /\ sample_length = [j \in Jobs |->
                IF j = 1 THEN Lines(k)
                ELSE IF j = 2 THEN Characters(k * (n + 1)) ELSE Lines(0)]
    /\ sink_faults = [j \in Jobs |-> {}]
    /\ pc = [j \in Jobs |-> IF j \in {1, 2} THEN "start" ELSE "idle"]
    /\ i = [j \in Jobs |-> 0]
    /\ chars_written = [j \in Jobs |-> 0]
    /\ file = [j \in Jobs |-> <<>>]
    /\ sink = [j \in Jobs |-> <<>>]
    /\ calls = [j \in Jobs |-> 0]
    /\ line = [j \in Jobs |-> NoCall]
    /\ written = [j \in Jobs |-> <<>>]
    /\ panic = [j \in Jobs |-> "none"]
    /\ finished = <<>>
    /\ samples = <<>>
    /\ reports = <<>>
    /\ mainpc = "test"

SpecPair == InitPair /\ [][Next]_vars

-----------------------------------------------------------------------------
(* main: submit jobs through the builder, then drop it. *)

BuilderLineLengths == {Fixed(1), Range(1, 1)}

BuilderSampleLengths == {Lines(1), Characters(3)}

BuilderFaultSets == {{}, {1}}

InitBuilder ==
    /\ line_length = [j \in Jobs |-> Fixed(0)]
    /\ sample_length = [j \in Jobs |-> Lines(0)]
    /\ character_generator = [j \in Jobs |-> <<99>>]
    /\ sink_faults = [j \in Jobs |-> {}]
    /\ pc = Idle
    /\ i = [j \in Jobs |-> 0]
    /\ chars_written = [j \in Jobs |-> 0]
    /\ file = [j \in Jobs |-> <<>>]
    /\ sink = [j \in Jobs |-> <<>>]
    /\ calls = [j \in Jobs |-> 0]
    /\ line = [j \in Jobs |-> NoCall]
    /\ written = [j \in Jobs |-> <<>>]
    /\ panic = [j \in Jobs |-> "none"]
    /\ finished = <<>>
    /\ samples = <<>>
    /\ reports = <<>>
    /\ mainpc = "main"

NextBuilder ==
    \/ \E j \in Jobs, ll \in BuilderLineLengths, sl \in BuilderSampleLengths,
          f \in BuilderFaultSets : Sample(j, ll, sl, <<99>>, f)
    \/ EndMain
    \/ Join
    \/ DropEnd
    \/ \E j \in Jobs :
        \/ Create(j)
        \/ Begin(j)
        \/ LinesIter(j)
        \/ LinesExit(j)
        \/ CharsIter(j)
        \/ CharsExit(j)
        \/ LastLine(j)
        \/ Flush(j)

SpecBuilder == InitBuilder /\ [][NextBuilder]_vars

-----------------------------------------------------------------------------
(* Properties *)

RECURSIVE SumLengths(_)
\* The recorded lengths of a sequence of lines, added up.
SumLengths(ls) == IF ls = <<>> THEN 0 ELSE Head(ls).length + SumLengths(Tail(ls))

RECURSIVE Concat(_)
\* The strings of a sequence of lines, one after the other.
Concat(ls) == IF ls = <<>> THEN <<>> ELSE Head(ls).string \o Concat(Tail(ls))

\* Payload length of a line string: its chars without the terminator.
Payload(string) == SubSeq(string, 1, Len(string) - 1)

Ascii(string) == \A k \in DOMAIN string : string[k] < 128

ByCharacters(j) == sample_length[j].tag = "Characters"

Limit(j) == sample_length[j].n

\* C1: with a valid line policy, when build_sample with Characters(limit)
\* returns, the lengths of the lines written sum to limit exactly; the sink
\* holds exactly those lines, and limit bytes when the source yields only
\* one-byte chars.
C1_LengthsSumToLimit ==
    \A j \in Jobs :
        (pc[j] = "done" /\ ByCharacters(j) /\ ValidPolicy(line_length[j])) =>
            /\ SumLengths(written[j]) = Limit(j)
            /\ SinkBytes(sink[j]) = Utf8(Concat(written[j]))
            /\ Len(Concat(written[j])) = Limit(j)
            /\ Ascii(character_generator[j]) => Len(SinkBytes(sink[j])) = Limit(j)

\* A ranged run that returned after four or more lines of differing lengths.
C1_Witness ==
    \E j \in Jobs :
        /\ pc[j] = "done" /\ ByCharacters(j)
        /\ line_length[j].tag = "Range" /\ ValidPolicy(line_length[j])
        /\ Len(written[j]) >= 4
        /\ written[j][1].length # written[j][2].length
        /\ Limit(j) = MaxLimit

\* C3: Fixed(n) and Characters(limit), limit >= 1: q = (limit-1) div (n+1)
\* full lines of length n+1, then one final line of length limit - q*(n+1),
\* which is in 1..n+1 and below n+1 when n+1 does not divide limit.
C3_FixedShape ==
    \A j \in Jobs :
        (pc[j] = "done" /\ ByCharacters(j) /\ line_length[j].tag = "Fixed"
            /\ Limit(j) >= 1) =>
            LET n == line_length[j].n
                q == (Limit(j) - 1) \div (n + 1)
                r == Limit(j) - q * (n + 1)
            IN /\ Len(written[j]) = q + 1
               /\ \A k \in 1..q : /\ written[j][k].length = n + 1
                                  /\ Len(written[j][k].string) = n + 1
                                  /\ ~written[j][k].final
               /\ written[j][q + 1].final
               /\ written[j][q + 1].length = r
               /\ Len(written[j][q + 1].string) = r
               /\ r \in 1..(n + 1)
               /\ (Limit(j) % (n + 1) # 0) => r < n + 1

\* Fixed(2), Characters(7): two full lines and a final line of one char.
C3_Witness ==
    \E j \in Jobs :
        /\ pc[j] = "done" /\ ByCharacters(j)
        /\ line_length[j] = Fixed(2) /\ Limit(j) = 7
        /\ Len(written[j]) = 3
        /\ written[j][3].length = 1

\* C9: with a valid line policy the Characters loop never reaches the limit:
\* chars_written < limit after every loop line, chars_written = limit only
\* when limit = 0, and the final line's payload length
\* limit - chars_written - 1 is never negative.
C9_LoopStaysBelowLimit ==
    \A j \in Jobs :
        (ByCharacters(j) /\ ValidPolicy(line_length[j])
            /\ pc[j] \notin {"idle", "spawned", "start"}) =>
            /\ chars_written[j] < Limit(j)
                  \/ (Limit(j) = 0 /\ chars_written[j] = 0)
            /\ \A k \in DOMAIN written[j] :
                  written[j][k].final =>
                      /\ written[j][k].policy.n >= 0
                      /\ written[j][k].policy.n = Limit(j) - chars_written[j] - 1
            /\ (line[j].n > 0 /\ line[j].policy.tag = "Fixed") => line[j].policy.n >= 0

\* The loop of a ranged run has ended one char short of the limit.
C9_Witness ==
    \E j \in Jobs :
        /\ pc[j] = "last" /\ ByCharacters(j)
        /\ line_length[j].tag = "Range" /\ ValidPolicy(line_length[j])
        /\ chars_written[j] >= 2
        /\ chars_written[j] = Limit(j) - 1

\* Whether a line string's payload length is one the policy allows.
Conforms(string, policy) ==
    LET p == Len(string) - 1
    IN IF policy.tag = "Fixed" THEN p = policy.n
       ELSE policy.start <= p /\ p < policy.end

Finals(j) == {k \in DOMAIN written[j] : written[j][k].final}

\* C10: Characters(limit), limit > 0, valid line policy: every line the loop
\* writes is generated under the caller's policy, and exactly one final line
\* is written, of total length in 1..max_line_length; only it may fall
\* outside the policy.
C10_OnlyFinalLineDeviates ==
    \A j \in Jobs :
        (ByCharacters(j) /\ ValidPolicy(line_length[j]) /\ Limit(j) > 0) =>
            /\ \A k \in DOMAIN written[j] :
                  ~written[j][k].final =>
                      /\ written[j][k].policy = line_length[j]
                      /\ Conforms(written[j][k].string, line_length[j])
            /\ \A k \in Finals(j) :
                  /\ k = Len(written[j])
                  /\ written[j][k].length \in 1..MaxLineLength(line_length[j])
                  /\ Len(written[j][k].string) = written[j][k].length
            /\ pc[j] \in {"flush", "done"} => Cardinality(Finals(j)) = 1

\* A ranged run returned whose final line is shorter than the policy allows.
C10_Witness ==
    \E j \in Jobs :
        /\ pc[j] = "done" /\ ByCharacters(j)
        /\ line_length[j].tag = "Range" /\ ValidPolicy(line_length[j])
        /\ Len(written[j]) >= 3
        /\ Finals(j) = {Len(written[j])}
        /\ ~Conforms(written[j][Len(written[j])].string, line_length[j])

\* C4: a line build_line returns has the payload length its policy asks for:
\* n under Fixed(n) (only the terminator when n = 0), some p with
\* low <= p < high under Range(low, high); the source was invoked once per
\* payload char and the reported length is payload length + 1.
C4_PayloadConformsToPolicy ==
    \A j \in Jobs :
        (line[j].n > 0 /\ line[j].ok) =>
            /\ Conforms(line[j].string, line[j].policy)
            /\ line[j].length = Len(Payload(line[j].string)) + 1
            /\ calls[j] = line[j].before + Len(Payload(line[j].string))
            /\ Payload(line[j].string) =
                  Take(character_generator[j], line[j].before, line[j].length - 1)
            /\ (line[j].policy = Fixed(0)) => line[j].string = <<NL>>

\* A ranged call drew the longest payload its range allows.
C4_Witness ==
    \E j \in Jobs :
        /\ line[j].n > 0 /\ line[j].ok
        /\ line[j].policy.tag = "Range"
        /\ line[j].policy.start + 1 < line[j].policy.end
        /\ Len(line[j].string) = line[j].policy.end

\* C5 as claimed: the recorded length of every line build_line returns is
\* the byte size of its payload plus 1, the byte size of the whole string,
\* and the last byte is the terminator.
C5_LengthIsByteSize ==
    \A j \in Jobs :
        (line[j].n > 0 /\ line[j].ok) =>
            LET bytes == Utf8(line[j].string)
            IN /\ line[j].length = Len(Utf8(Payload(line[j].string))) + 1
               /\ line[j].length = Len(bytes)
               /\ bytes[Len(bytes)] = NL

\* C5 amended: the recorded length is the number of chars of the payload
\* plus 1; it is the byte size of the string exactly when every payload char
\* takes one byte; the last byte is the terminator.
C5_LengthIsCharCount ==
    \A j \in Jobs :
        (line[j].n > 0 /\ line[j].ok) =>
            LET bytes == Utf8(line[j].string)
            IN /\ line[j].length = Len(Payload(line[j].string)) + 1
               /\ line[j].length = Len(line[j].string)
               /\ (line[j].length = Len(bytes)) <=> Ascii(line[j].string)
               /\ line[j].length <= Len(bytes)
               /\ bytes[Len(bytes)] = NL
               /\ line[j].string[Len(line[j].string)] = NL

\* A returned line whose payload holds a two-byte char.
C5_Witness ==
    \E j \in Jobs :
        /\ line[j].n > 0 /\ line[j].ok
        /\ line[j].length >= 3
        /\ ~Ascii(line[j].string)

\* C6: build_line given Range(low, high) with low >= high panics: no line
\* is returned, the source is not invoked, the range is not reinterpreted.
C6_EmptyRangePanics ==
    \A j \in Jobs :
        (line[j].n > 0 /\ line[j].policy.tag = "Range"
            /\ line[j].policy.start >= line[j].policy.end) =>
            /\ ~line[j].ok
            /\ line[j].string = <<>>
            /\ calls[j] = line[j].before
            /\ pc[j] = "panicked"
            /\ panic[j] \in {"assert_ne", "empty range"}
            /\ (line[j].policy.start = line[j].policy.end) => panic[j] = "assert_ne"

\* A call with an inverted range has panicked.
C6_Witness ==
    \E j \in Jobs :
        /\ line[j].n > 0
        /\ line[j].policy.tag = "Range"
        /\ line[j].policy.start > line[j].policy.end
        /\ pc[j] = "panicked"

\* C2: the same Fixed(n) and the same source: Characters(k*(n+1)) writes
\* what Lines(k) writes, k lines of length n+1 each, nothing when k = 0.
C2_CountsAgree ==
    \A a, b \in Jobs :
        (/\ pc[a] = "done" /\ pc[b] = "done"
         /\ line_length[a].tag = "Fixed" /\ line_length[b] = line_length[a]
         /\ character_generator[a] = character_generator[b]
         /\ sample_length[a].tag = "Lines" /\ ByCharacters(b)
         /\ Limit(b) = sample_length[a].n * (line_length[a].n + 1)) =>
            LET n == line_length[a].n
                k == sample_length[a].n
            IN /\ SinkBytes(sink[a]) = SinkBytes(sink[b])
               /\ Len(written[a]) = k /\ Len(written[b]) = k
               /\ \A x \in 1..k :
                     /\ written[a][x].string = written[b][x].string
                     /\ written[a][x].length = n + 1
                     /\ written[b][x].length = n + 1
                     /\ Len(written[a][x].string) = n + 1
               /\ SinkBytes(sink[a]) = Utf8(Concat(written[a]))
               /\ k = 0 => SinkBytes(sink[a]) = <<>>

\* Both calls returned with three lines of a mixed-width source.
C2_Witness ==
    \E a, b \in Jobs :
        /\ pc[a] = "done" /\ pc[b] = "done"
        /\ sample_length[a] = Lines(3) /\ ByCharacters(b)
        /\ line_length[a] = Fixed(2) /\ Limit(b) = 9
        /\ ~Ascii(character_generator[a])
        /\ Len(written[b]) = 3
        /\ SinkBytes(sink[b]) # <<>>

Failed(j) == \E a \in DOMAIN sink[j] : ~sink[j][a].ok

\* The first operation the sink rejected.
FirstFailure(j) ==
    CHOOSE a \in DOMAIN sink[j] :
        ~sink[j][a].ok /\ \A b \in 1..(a - 1) : sink[j][b].ok

JobState(j) ==
    <<pc[j], i[j], chars_written[j], file[j], sink[j], calls[j], line[j],
      written[j], panic[j]>>

\* C7 as claimed: once the sink has rejected a write or a flush the thread
\* has panicked, no byte reaches the sink after the rejected operation, and
\* nothing more happens in the job: no line is generated.
C7_NothingAfterFailure ==
    [][\A j \in Jobs :
          /\ Failed(j)' =>
                /\ pc'[j] = "panicked"
                /\ \A b \in DOMAIN sink'[j] :
                      b > FirstFailure(j)' =>
                          ~(sink'[j][b].op = "write" /\ sink'[j][b].ok)
          /\ Failed(j) => JobState(j)' = JobState(j)]_vars

\* C7 amended: once the sink has rejected an operation the thread has
\* panicked and nothing more happens in the job; the sink sees at most one
\* more operation, made as the BufWriter is dropped: the rejected write of
\* the buffered bytes offered once more.
C7_OnlyDropRetriesAfterFailure ==
    [][\A j \in Jobs :
          /\ Failed(j)' =>
                LET a == FirstFailure(j)'
                IN /\ pc'[j] = "panicked"
                   /\ panic'[j] # "none"
                   /\ Len(sink'[j]) <= a + 1
                   /\ Len(sink'[j]) = a + 1 =>
                         /\ panic'[j] \in {"write", "flush"}
                         /\ sink'[j][a].op = "write"
                         /\ sink'[j][a + 1].op = "write"
                         /\ sink'[j][a + 1].bytes = sink'[j][a].bytes
          /\ Failed(j) => JobState(j)' = JobState(j)]_vars

\* A write rejected inside the loop, and the bytes accepted on the drop.
C7_Witness ==
    \E j \in Jobs :
        /\ Failed(j)
        /\ pc[j] = "panicked" /\ panic[j] = "write"
        /\ Len(sink[j]) = FirstFailure(j) + 1
        /\ sink[j][Len(sink[j])].ok
        /\ SinkBytes(sink[j]) # <<>>

Submitted == {j \in Jobs : pc[j] # "idle"}

\* C8: drop reports every submitted job once, in submission order, each
\* only after its thread has ended, with the outcome of that thread.
C8_JoinedInSubmissionOrder ==
    /\ \A k \in DOMAIN reports :
          /\ reports[k].job = k
          /\ pc[reports[k].job] \in {"done", "panicked"}
          /\ reports[k].ok = (pc[reports[k].job] = "done")
          /\ \E x \in DOMAIN finished : finished[x] = reports[k].job
    /\ mainpc = "exit" =>
          /\ Len(reports) = Cardinality(Submitted)
          /\ {reports[k].job : k \in DOMAIN reports} = Submitted
          /\ samples = <<>>
    /\ mainpc \in {"main", "drop"} =>
          {reports[k].job : k \in DOMAIN reports}
             \cup {samples[k] : k \in DOMAIN samples} = Submitted

\* Job 2 ended before job 1, one of them by a panic, and drop has reported
\* job 1 first.
C8_Witness ==
    /\ mainpc = "exit"
    /\ Len(finished) >= 2
    /\ finished[1] = 2 /\ finished[2] = 1
    /\ Len(reports) >= 2
    /\ reports[1].job = 1 /\ reports[2].job = 2
    /\ reports[1].ok # reports[2].ok

====
